---- MODULE Spec2Model ----
(***************************************************************************)
(* A model of src/chatbot.py: the Chatbot object of the TransLingo         *)
(* WhatsApp group bot.  The state is the subscriber registry (the dict     *)
(* `subscribers` and its reverse index `display_names`), the two           *)
(* encrypted store files, and a record of what the last call of            *)
(* process_msg was given, returned and asked of its collaborators          *)
(* (LibreTranslate and the Twilio client).                                 *)
(*                                                                         *)
(* Python strings are sequences of one-character strings, so that          *)
(* startswith, isdigit, lower, slicing and the f-string wrapping of a      *)
(* contact are computed as the code computes them.                         *)
(***************************************************************************)
EXTENDS Integers, Sequences, FiniteSets, TLC

(***************************************************************************)
(* Bounds of the model.                                                    *)
(***************************************************************************)
NumPhones == 3      \* phone numbers +1 .. +NumPhones
MaxSubs == 3        \* the registry never grows beyond MaxSubs subscribers
NumIVs == 2         \* distinct initialisation vectors Fernet draws from

(***************************************************************************)
(* Strings.                                                                *)
(***************************************************************************)
Digits == {"0", "1", "2", "3", "4", "5", "6", "7", "8", "9"}

DigitChar(n) ==
    CASE n = 0 -> "0" [] n = 1 -> "1" [] n = 2 -> "2" [] n = 3 -> "3"
      [] n = 4 -> "4" [] n = 5 -> "5" [] n = 6 -> "6" [] n = 7 -> "7"
      [] n = 8 -> "8" [] OTHER -> "9"

\* str.startswith(prefix)
StartsWith(s, p) == Len(s) >= Len(p) /\ SubSeq(s, 1, Len(p)) = p

\* str.isdigit(): non-empty and every character a digit
IsDigit(s) == Len(s) > 0 /\ \A i \in 1..Len(s) : s[i] \in Digits

LowerChar(c) ==
    CASE c = "A" -> "a" [] c = "D" -> "d" [] c = "E" -> "e"
      [] c = "M" -> "m" [] c = "O" -> "o" [] c = "R" -> "r"
      [] c = "V" -> "v" [] OTHER -> c

\* str.lower()
Lower(s) == [i \in 1..Len(s) |-> LowerChar(s[i])]

\* s[1:]
Rest(s) == SubSeq(s, 2, Len(s))

(***************************************************************************)
(* Constants of the module (lines 27-41).  consts.ADMIN is assigned twice; *)
(* the later assignment, the role name, is the one that stands.            *)
(***************************************************************************)
TEST == <<"/", "t", "e", "s", "t">>
ADD == <<"/", "a", "d", "d">>
REMOVE == <<"/", "r", "e", "m", "o", "v", "e">>
LIST == <<"/", "l", "i", "s", "t">>
USER == <<"u", "s", "e", "r">>
ADMIN == <<"a", "d", "m", "i", "n">>
SUPER == <<"s", "u", "p", "e", "r">>
VALID_ROLES == {USER, ADMIN, SUPER}
pm_char == <<"#">>

\* The provider prefix of a contact key, f"whatsapp:{...}"
WA == <<"w", "h", "a", "t", "s", "a", "p", "p", ":">>
Wrap(contact) == WA \o contact

\* LangData.codes: the language codes LibreTranslate supports
codes == {<<"e", "n">>, <<"e", "s">>}

\* LangData.get_<id>(lang): a message localized into the sender's language
Localized(id, lang) == [t |-> "loc", id |-> id, lang |-> lang]

(***************************************************************************)
(* The vocabulary the inputs are drawn from.                               *)
(***************************************************************************)
Phone(n) == <<"+", DigitChar(n)>>
Phones == {Phone(n) : n \in 1..NumPhones}
Contacts == {Wrap(p) : p \in Phones}
EN == <<"e", "n">>
ES == <<"e", "s">>
XX == <<"x", "x">>
NameA == <<"a">>
NameB == <<"b">>
NameC == <<"c">>

(***************************************************************************)
(* The registry: a Python dict keeps insertion order, so `subscribers` is  *)
(* a sequence of entries with pairwise different keys.                     *)
(***************************************************************************)
Entry(k, n, l, r) == [key |-> k, name |-> n, lang |-> l, role |-> r]

Keys(subs) == {subs[i].key : i \in 1..Len(subs)}

\* subs[k], for k in subs
Get(subs, k) == subs[CHOOSE i \in 1..Len(subs) : subs[i].key = k]

\* subs[k] = v: the value changes in place, a new key goes last
Put(subs, e) ==
    IF e.key \in Keys(subs)
    THEN [i \in 1..Len(subs) |-> IF subs[i].key = e.key THEN e ELSE subs[i]]
    ELSE Append(subs, e)

\* del subs[k]
Del(subs, k) == SelectSeq(subs, LAMBDA e : e.key # k)

\* {v["name"]: k for k, v in subscribers.items()}: a later entry overwrites
\* an earlier one of the same name
InvertNames(subs) ==
    [n \in {subs[i].name : i \in 1..Len(subs)} |->
        subs[CHOOSE i \in 1..Len(subs) :
                /\ subs[i].name = n
                /\ \A j \in 1..Len(subs) : subs[j].name = n => j <= i].key]

(***************************************************************************)
(* Serialization and sealing of the store.                                 *)
(***************************************************************************)
\* json.dumps(subscribers, indent=4): the members of one JSON object, in
\* the order of the dict
JsonDumps(subs) ==
    [t |-> "object",
     members |-> [i \in 1..Len(subs) |->
                    <<subs[i].key,
                      <<subs[i].name, subs[i].lang, subs[i].role>>>>]]

NotJson == [t |-> "text", members |-> <<>>]

RECURSIVE LoadMembers(_, _)
LoadMembers(members, acc) ==
    IF members = <<>> THEN acc
    ELSE LET m == Head(members)
         IN LoadMembers(Tail(members),
                        Put(acc, Entry(m[1], m[2][1], m[2][2], m[2][3])))

\* json.loads(text): fails on text that is not JSON
JsonLoads(text) ==
    IF text.t = "object"
    THEN [ok |-> TRUE, value |-> LoadMembers(text.members, <<>>)]
    ELSE [ok |-> FALSE, value |-> <<>>]

\* The key read from the key file, and some other key
TheKey == "key"
OtherKey == "other"

\* Fernet(key).encrypt(data): a token under the iv drawn for it
Encrypt(key, iv, data) == [t |-> "token", key |-> key, iv |-> iv, data |-> data]

\* The iv of the next token: Fernet draws 16 random bytes, so sealing again
\* never yields the bytes that `previous` holds
FreshIV(previous) == (previous.iv % NumIVs) + 1

\* What a file can hold besides a token
Garbage == [t |-> "garbage", key |-> "", iv |-> 0, data |-> NotJson]
EmptyBytes == [t |-> "empty", key |-> "", iv |-> 0, data |-> NotJson]
Missing == [t |-> "missing", key |-> "", iv |-> 0, data |-> NotJson]

\* Fernet(key).decrypt(bytes): fails unless bytes is a token sealed with key
Decrypt(key, bytes) ==
    IF bytes.t = "token" /\ bytes.key = key
    THEN [ok |-> TRUE, data |-> bytes.data]
    ELSE [ok |-> FALSE, data |-> NotJson]

\* decrypt, decode and parse, as both branches of __init__ do
ReadStore(key, bytes) ==
    LET d == Decrypt(key, bytes)
    IN IF d.ok THEN JsonLoads(d.data) ELSE [ok |-> FALSE, value |-> <<>>]

(***************************************************************************)
(* The stores the files may hold at start-up.                              *)
(***************************************************************************)
StoreA == <<Entry(Wrap(Phone(1)), NameA, EN, SUPER),
            Entry(Wrap(Phone(2)), NameB, ES, ADMIN)>>
StoreB == <<Entry(Wrap(Phone(1)), NameA, EN, SUPER),
            Entry(Wrap(Phone(2)), NameB, ES, ADMIN),
            Entry(Wrap(Phone(3)), NameC, ES, USER)>>

InitPrimary ==
    { Encrypt(TheKey, 1, JsonDumps(StoreA)),
      Encrypt(TheKey, 1, NotJson),
      Encrypt(OtherKey, 1, JsonDumps(StoreA)),
      Garbage, EmptyBytes, Missing }

InitBackup ==
    { Encrypt(TheKey, 1, JsonDumps(StoreA)),
      Encrypt(TheKey, 2, JsonDumps(StoreB)),
      Garbage, Missing }

VARIABLES
    bot,            \* "absent", "running" or "failed": the Chatbot object
    logs_ok,        \* whether the logs files (lines 152-170) can be loaded
    subscribers,    \* self.subscribers
    display_names,  \* self.display_names
    primary,        \* the bytes of self.json_file
    backup,         \* the bytes of self.backup_file
    call,           \* the arguments of the last call of process_msg, and
                    \* the translations and deliveries that failed in it
    result,         \* what that call returned or raised
    translated,     \* the calls of translate_to it made, in order
    sent,           \* the calls of client.messages.create it made, in order
    file_ops,       \* the operations on the store files it made, in order
    threads         \* the request threads that run /add and /remove one
                    \* statement at a time: where each one is, and its locals

vars == <<bot, logs_ok, subscribers, display_names, primary, backup,
          call, result, translated, sent, file_ops, threads>>

\* The request threads of the web server: each one serves one request
Workers == {1, 2}

NoCall == [msg |-> [blank |-> FALSE, parts |-> <<>>],
           sender |-> <<>>, media |-> <<>>,
           env |-> [tr_fail |-> {}, send_fail |-> {}]]
NoResult == [kind |-> "none", wrapped |-> FALSE, body |-> [t |-> "none"]]

\* A thread that runs no handler
Idle == [pc |-> "idle", sender |-> <<>>, sender_lang |-> <<>>,
         parts |-> <<>>,
         encrypted_data |-> EmptyBytes, backup_before |-> EmptyBytes,
         primary_before |-> EmptyBytes,
         reply |-> NoResult]

Init ==
    /\ bot = "absent"
    /\ logs_ok \in BOOLEAN
    /\ subscribers = <<>>
    /\ display_names = <<>>
    /\ primary \in InitPrimary
    /\ backup \in InitBackup
    /\ call = NoCall
    /\ result = NoResult
    /\ translated = <<>>
    /\ sent = <<>>
    /\ file_ops = <<>>
    /\ threads = [t \in Workers |-> Idle]

(***************************************************************************)
(* Chatbot.__init__, lines 132-170.  The primary file is opened outside    *)
(* the try block, so a missing primary is fatal; any failure to decrypt    *)
(* or parse it sends the constructor to the backup, whose failures are     *)
(* not caught.  The logs files are then loaded the same way, and a         *)
(* failure there is fatal as well.                                         *)
(***************************************************************************)
\* The constructor reading the backup whenever it is readable
LoadStoreBackupFirst(p, b) ==
    IF p.t = "missing" THEN [ok |-> FALSE, value |-> <<>>]
    ELSE IF b.t # "missing" /\ ReadStore(TheKey, b).ok
    THEN ReadStore(TheKey, b)
    ELSE ReadStore(TheKey, p)

LoadStore(p, b) ==
    IF p.t = "missing" THEN [ok |-> FALSE, value |-> <<>>]
    ELSE IF ReadStore(TheKey, p).ok THEN ReadStore(TheKey, p)
    ELSE IF b.t = "missing" THEN [ok |-> FALSE, value |-> <<>>]
    ELSE ReadStore(TheKey, b)

Load ==
    /\ bot = "absent"
    /\ LET r == LoadStore(primary, backup)
       IN IF r.ok
          THEN /\ subscribers' = r.value
               /\ display_names' = InvertNames(r.value)
               /\ bot' = IF logs_ok THEN "running" ELSE "failed"
          ELSE /\ bot' = "failed"
               /\ UNCHANGED <<subscribers, display_names>>
    /\ UNCHANGED <<logs_ok, primary, backup, call, result, translated, sent,
                   file_ops, threads>>

(***************************************************************************)
(* Texts.  A message is what msg.split() yields, and whether the text is   *)
(* made of whitespace only (then it is non-empty and has no token).        *)
(***************************************************************************)
Message(parts) == [blank |-> FALSE, parts |-> parts]
BlankMessage == [blank |-> TRUE, parts |-> <<>>]

\* not msg
IsEmptyMsg(msg) == msg.parts = <<>> /\ ~msg.blank

EmptyText == [t |-> "empty"]
\* " ".join(words)
Joined(words) == IF words = <<>> THEN EmptyText
                 ELSE [t |-> "words", words |-> words]
\* sender_name + " says:\n" + msg
Says(name, msg) == [t |-> "says", name |-> name, msg |-> msg]
\* f"Private message from {sender}:\n{msg}"
PrivateText(name, body) == [t |-> "private", name |-> name, of |-> body]
\* f"List of subscribers:\n{subscribers}"
ListText(subs) == [t |-> "list", json |-> JsonDumps(subs)]
\* str(e) of an exception
ExcText(id) == [t |-> "exc", id |-> id]
\* what translate_to(text, lang) returns when it does not fail
Translation(text, lang) == [t |-> "tr", lang |-> lang, of |-> text]

Return(wrapped, body) == [kind |-> "return", wrapped |-> wrapped, body |-> body]
Raise(id) == [kind |-> "raise", wrapped |-> FALSE, body |-> ExcText(id)]

TranslateCall(text, lang) == [text |-> text, lang |-> lang]
SendCall(to, body, media) == [to |-> to, body |-> body, media |-> media]

\* What a handler leaves behind: the registry, the files, what it returned
\* or raised, and the calls it made
Outcome(subs, names, p, b, res, trs, sends, ops) ==
    [subs |-> subs, names |-> names, primary |-> p, backup |-> b,
     result |-> res, translated |-> trs, sent |-> sends, file_ops |-> ops]

(***************************************************************************)
(* Chatbot._push, lines 203-221.  env.tr_fail is the set of languages for  *)
(* which translate_to raises TimeoutError or HTTPError during this call,   *)
(* env.send_fail the set of contacts for which messages.create raises.     *)
(***************************************************************************)
\* The loop without its cache: every subscriber's text is translated anew
RECURSIVE PushLoopNoCache(_, _, _, _, _, _, _, _, _)
PushLoopNoCache(subs, i, text, sender, media, env, translations, trs, sends) ==
    IF i > Len(subs) THEN [res |-> Return(FALSE, EmptyText),
                           trs |-> trs, sends |-> sends]
    ELSE LET s == subs[i].key
             lang == subs[i].lang
             trs2 == Append(trs, TranslateCall(text, lang))
         IN IF s = sender
            THEN PushLoopNoCache(subs, i + 1, text, sender, media, env,
                                 translations, trs, sends)
            ELSE IF lang \in env.tr_fail
            THEN [res |-> Return(FALSE, ExcText("translate")),
                  trs |-> trs2, sends |-> sends]
            ELSE IF s \in env.send_fail
            THEN [res |-> Raise("TwilioRestException"),
                  trs |-> trs2, sends |-> sends]
            ELSE PushLoopNoCache(subs, i + 1, text, sender, media, env,
                                 translations, trs2,
                                 Append(sends,
                                        SendCall(s, Translation(text, lang),
                                                 media)))

RECURSIVE PushLoop(_, _, _, _, _, _, _, _, _)
PushLoop(subs, i, text, sender, media, env, translations, trs, sends) ==
    IF i > Len(subs) THEN [res |-> Return(FALSE, EmptyText),
                           trs |-> trs, sends |-> sends]
    ELSE LET s == subs[i].key
             lang == subs[i].lang
         IN IF s = sender
            THEN PushLoop(subs, i + 1, text, sender, media, env,
                          translations, trs, sends)
            ELSE IF lang \in DOMAIN translations
            THEN IF s \in env.send_fail
                 THEN [res |-> Raise("TwilioRestException"),
                       trs |-> trs, sends |-> sends]
                 ELSE PushLoop(subs, i + 1, text, sender, media, env,
                               translations, trs,
                               Append(sends,
                                      SendCall(s, translations[lang], media)))
            ELSE LET trs2 == Append(trs, TranslateCall(text, lang))
                     translated2 == Translation(text, lang)
                     cache2 == [l \in DOMAIN translations \cup {lang} |->
                                  IF l = lang THEN translated2
                                  ELSE translations[l]]
                 IN IF lang \in env.tr_fail
                    THEN [res |-> Return(FALSE, ExcText("translate")),
                          trs |-> trs2, sends |-> sends]
                    ELSE IF s \in env.send_fail
                    THEN [res |-> Raise("TwilioRestException"),
                          trs |-> trs2, sends |-> sends]
                    ELSE PushLoop(subs, i + 1, text, sender, media, env,
                                  cache2, trs2,
                                  Append(sends,
                                         SendCall(s, translated2, media)))

NoTranslations == [l \in {} |-> EmptyText]

\* The loop that does not skip the sender
PushToAll(subs, text, sender, media, env) ==
    PushLoop(subs, 1, text, <<>>, media, env, NoTranslations, <<>>, <<>>)

Push(subs, text, sender, media, env) ==
    PushLoop(subs, 1, text, sender, media, env, NoTranslations, <<>>, <<>>)

(***************************************************************************)
(* Chatbot._query, lines 244-262.                                          *)
(***************************************************************************)
\* The router that answers nothing when the recipient is unknown
QuerySilent(subs, names, body, sender_name, sender_lang, recipient, media, env) ==
    IF recipient \in DOMAIN names /\ ~(body = EmptyText /\ Len(media) = 0)
    THEN LET recipient_contact == names[recipient]
             recipient_lang == Get(subs, recipient_contact).lang
             text == PrivateText(sender_name, body)
             trs == <<TranslateCall(text, recipient_lang)>>
         IN IF recipient_lang \in env.tr_fail
            THEN [res |-> Return(FALSE, ExcText("translate")),
                  trs |-> trs, sends |-> <<>>]
            ELSE IF recipient_contact \in env.send_fail
            THEN [res |-> Raise("TwilioRestException"),
                  trs |-> trs, sends |-> <<>>]
            ELSE [res |-> Return(FALSE, EmptyText), trs |-> trs,
                  sends |-> <<SendCall(recipient_contact,
                                       Translation(text, recipient_lang),
                                       media)>>]
    ELSE [res |-> Return(FALSE, EmptyText), trs |-> <<>>, sends |-> <<>>]

Query(subs, names, body, sender_name, sender_lang, recipient, media, env) ==
    IF recipient \notin DOMAIN names
    THEN [res |-> Return(FALSE, Localized("unfound_err", sender_lang)),
          trs |-> <<>>, sends |-> <<>>]
    ELSE IF ~(body = EmptyText /\ Len(media) = 0)
    THEN LET recipient_contact == names[recipient]
             recipient_lang == Get(subs, recipient_contact).lang
             text == PrivateText(sender_name, body)
             trs == <<TranslateCall(text, recipient_lang)>>
         IN IF recipient_lang \in env.tr_fail
            THEN [res |-> Return(FALSE, ExcText("translate")),
                  trs |-> trs, sends |-> <<>>]
            ELSE IF recipient_contact \in env.send_fail
            THEN [res |-> Raise("TwilioRestException"),
                  trs |-> trs, sends |-> <<>>]
            ELSE [res |-> Return(FALSE, EmptyText), trs |-> trs,
                  sends |-> <<SendCall(recipient_contact,
                                       Translation(text, recipient_lang),
                                       media)>>]
    ELSE [res |-> Return(FALSE, EmptyText), trs |-> <<>>, sends |-> <<>>]

(***************************************************************************)
(* Chatbot._test_translate, lines 275-293.                                 *)
(***************************************************************************)
TestTranslate(subs, msg, sender, env) ==
    LET sender_lang == Get(subs, sender).lang
        example == [res |-> Return(FALSE,
                                   Localized("test_example", sender_lang)),
                    trs |-> <<>>]
    IN IF Len(msg.parts) < 2 THEN example
       ELSE LET l == Lower(msg.parts[2])
                text == Joined(SubSeq(msg.parts, 3, Len(msg.parts)))
            IN IF l \notin codes THEN example
               ELSE IF text = EmptyText THEN example
               ELSE IF l \in env.tr_fail
               THEN [res |-> Return(FALSE, ExcText("translate")),
                     trs |-> <<TranslateCall(text, l)>>]
               ELSE IF sender_lang \in env.tr_fail
               THEN [res |-> Return(FALSE, ExcText("translate")),
                     trs |-> <<TranslateCall(text, l),
                               TranslateCall(Translation(text, l),
                                             sender_lang)>>]
               ELSE [res |-> Return(FALSE,
                                    Translation(Translation(text, l),
                                                sender_lang)),
                     trs |-> <<TranslateCall(text, l),
                               TranslateCall(Translation(text, l),
                                             sender_lang)>>]

(***************************************************************************)
(* Saving the registry, lines 352-365 and 420-433 (the same statements in  *)
(* both handlers).  env.io says which file operation, if any, raises       *)
(* OSError:                                                                *)
(*   "primary_open"   open(json_file, "wb") fails, nothing is touched;     *)
(*   "primary_write"  the file was truncated by open and write fails;      *)
(*   "backup_open"    open(backup_file, "wb") fails, the backup is as it   *)
(*                    was;                                                 *)
(*   "backup_write"   the backup was truncated by open and write fails.    *)
(* The backup receives the bytes read back from the primary file.          *)
(***************************************************************************)
IOOutcomes == {"ok", "primary_open", "primary_write", "backup_open",
               "backup_write"}

\* The backup sealed again instead of copied
CopyLinesSealedAgain(bytes) == [bytes EXCEPT !.iv = FreshIV(bytes)]

\* Lines 363-365 and 431-433: what the loop over the lines of the primary
\* file writes to the backup file
CopyLines(bytes) == bytes

Save(subs, p, b, env) ==
    LET subscribers_list == JsonDumps(subs)
        encrypted_data == Encrypt(TheKey, FreshIV(p), subscribers_list)
    IN CASE env.io = "primary_open" ->
              [ok |-> FALSE, primary |-> p, backup |-> b, ops |-> <<>>]
         [] env.io = "primary_write" ->
              [ok |-> FALSE, primary |-> EmptyBytes, backup |-> b,
               ops |-> <<"truncate_primary">>]
         [] env.io = "backup_open" ->
              [ok |-> FALSE, primary |-> encrypted_data, backup |-> b,
               ops |-> <<"truncate_primary", "write_primary">>]
         [] env.io = "backup_write" ->
              [ok |-> FALSE, primary |-> encrypted_data,
               backup |-> EmptyBytes,
               ops |-> <<"truncate_primary", "write_primary",
                         "truncate_backup">>]
         [] OTHER ->
              [ok |-> TRUE, primary |-> encrypted_data,
               backup |-> CopyLines(encrypted_data),
               ops |-> <<"truncate_primary", "write_primary",
                         "truncate_backup", "write_backup">>]

\* names[name] = key, forgotten
SetNameForgotten(names, name, key) == names

\* names[name] = key
SetName(names, name, key) ==
    [n \in DOMAIN names \cup {name} |-> IF n = name THEN key ELSE names[n]]

\* del names[name], forgotten
DelNameForgotten(names, name) == names

\* del names[name]
DelName(names, name) == [n \in DOMAIN names \ {name} |-> names[n]]

\* A handler that saves the registry before it returns its error
SavedAnyway(subs, names, p, b, res) ==
    Outcome(subs, names, Encrypt(TheKey, FreshIV(p), JsonDumps(subs)),
            Encrypt(TheKey, FreshIV(p), JsonDumps(subs)), res, <<>>, <<>>,
            <<"truncate_primary", "write_primary", "truncate_backup",
              "write_backup">>)

\* A handler that returns without touching anything
Unchanged(subs, names, p, b, res) ==
    Outcome(subs, names, p, b, res, <<>>, <<>>, <<>>)

\* The checks of _add_subscriber with the name looked up before the contact
AddErrorNameFirst(subs, names, parts) ==
    LET new_contact == parts[2]
        new_name == parts[3]
        new_lang == parts[4]
        new_role == parts[5]
        new_contact_key == Wrap(new_contact)
    IN IF ~StartsWith(new_contact, <<"+">>) \/ ~IsDigit(Rest(new_contact))
       THEN "add_phone_err"
       ELSE IF new_name \in DOMAIN names THEN "add_name_err"
       ELSE IF new_contact_key \in Keys(subs) THEN "exists_err"
       ELSE IF new_lang \notin codes THEN "add_lang_err"
       ELSE IF new_role \notin VALID_ROLES THEN "add_role_err"
       ELSE "none"

(***************************************************************************)
(* The checks of _add_subscriber on a 5-token message, lines 318-343: the  *)
(* first one that fails names the error, "none" that all pass.             *)
(***************************************************************************)
AddError(subs, names, parts) ==
    LET new_contact == parts[2]
        new_name == parts[3]
        new_lang == parts[4]
        new_role == parts[5]
        new_contact_key == Wrap(new_contact)
    IN IF ~StartsWith(new_contact, <<"+">>) \/ ~IsDigit(Rest(new_contact))
       THEN "add_phone_err"
       ELSE IF new_contact_key \in Keys(subs) THEN "exists_err"
       ELSE IF new_name \in DOMAIN names THEN "add_name_err"
       ELSE IF new_lang \notin codes THEN "add_lang_err"
       ELSE IF new_role \notin VALID_ROLES THEN "add_role_err"
       ELSE "none"

(***************************************************************************)
(* Chatbot._add_subscriber, lines 305-371.  The value is what the handler  *)
(* returns, before process_msg wraps it with _reply.                       *)
(***************************************************************************)
AddSubscriber(subs, names, p, b, msg, sender_contact, env) ==
    LET sender_lang == Get(subs, sender_contact).lang
        parts == msg.parts
        err(id) == Unchanged(subs, names, p, b,
                             Return(FALSE, Localized(id, sender_lang)))
    IN IF Len(parts) = 5
       THEN LET new_contact == parts[2]
                new_name == parts[3]
                new_lang == parts[4]
                new_role == parts[5]
                new_contact_key == Wrap(new_contact)
                subs2 == Put(subs, Entry(new_contact_key, new_name,
                                         new_lang, new_role))
                names2 == SetName(names, new_name, new_contact_key)
                saved == Save(subs2, p, b, env)
                failed == AddError(subs, names, parts)
            IN IF failed # "none" THEN err(failed)
               ELSE Outcome(subs2, names2, saved.primary, saved.backup,
                            IF saved.ok
                            THEN Return(FALSE,
                                        Localized("add_success", sender_lang))
                            ELSE Raise("OSError"),
                            <<>>, <<>>, saved.ops)
       ELSE err("add_err")

\* The checks of _remove_subscriber without the privilege check
RemoveErrorNoPrivilege(subs, sender_contact, parts) ==
    LET user_contact == parts[2]
        user_contact_key == Wrap(user_contact)
    IN IF sender_contact = user_contact THEN "remove_self_err"
       ELSE IF user_contact_key \notin Keys(subs) THEN "unfound_err"
       ELSE "none"

(***************************************************************************)
(* The checks of _remove_subscriber on a 2-token message, lines 398-414.   *)
(***************************************************************************)
RemoveError(subs, sender_contact, parts) ==
    LET sender_role == Get(subs, sender_contact).role
        user_contact == parts[2]
        user_contact_key == Wrap(user_contact)
    IN IF sender_contact = user_contact THEN "remove_self_err"
       ELSE IF user_contact_key \notin Keys(subs) THEN "unfound_err"
       ELSE IF /\ sender_role = ADMIN
               /\ Get(subs, user_contact_key).role = SUPER
       THEN "remove_super_err"
       ELSE "none"

(***************************************************************************)
(* Chatbot._remove_subscriber, lines 387-439.                              *)
(***************************************************************************)
RemoveSubscriber(subs, names, p, b, msg, sender_contact, env) ==
    LET sender_lang == Get(subs, sender_contact).lang
        parts == msg.parts
        err(id) == Unchanged(subs, names, p, b,
                             Return(FALSE, Localized(id, sender_lang)))
    IN IF Len(parts) = 2
       THEN LET user_contact == parts[2]
                user_contact_key == Wrap(user_contact)
                failed == RemoveError(subs, sender_contact, parts)
            IN IF failed # "none" THEN err(failed)
               ELSE LET name == Get(subs, user_contact_key).name
                        names2 == DelName(names, name)
                        subs2 == Del(subs, user_contact_key)
                        saved == Save(subs2, p, b, env)
                    IN IF name \notin DOMAIN names
                       THEN Unchanged(subs, names, p, b, Raise("KeyError"))
                       ELSE Outcome(subs2, names2, saved.primary,
                                    saved.backup,
                                    IF saved.ok
                                    THEN Return(FALSE,
                                                Localized("remove_success",
                                                          sender_lang))
                                    ELSE Raise("OSError"),
                                    <<>>, <<>>, saved.ops)
       ELSE err("remove_err")

(***************************************************************************)
(* Chatbot._reply, lines 181-184: the TwiML envelope around a body.  An    *)
(* exception raised while the body is computed passes through.             *)
(***************************************************************************)
Reply(res) == IF res.kind = "return" THEN Return(TRUE, res.body) ELSE res

\* return self._reply(""): an empty message in the reply envelope
IgnoredInEnvelope == Return(TRUE, EmptyText)

\* return "": lines 462, 465, 486 and 512, the reply to a message that is
\* ignored
Ignored == Return(FALSE, EmptyText)

\* word[0:1]
First1(word) == IF Len(word) >= 1 THEN <<word[1]>> ELSE <<>>

\* The slash test left out
UnauthorizedNever(word_1) == FALSE

\* word_1[0:1] == "/" and len(word_1) > 1, lines 485 and 511: a slash
\* command that is unknown or not allowed to the sender
Unauthorized(word_1) == First1(word_1) = <<"/">> /\ Len(word_1) > 1

(***************************************************************************)
(* Chatbot.process_msg, lines 456-514.                                     *)
(***************************************************************************)
ProcessMsgOutcome(subs, names, p, b, msg, sender_contact, media_urls, env) ==
    LET same(res, trs, sends) ==
            Outcome(subs, names, p, b, res, trs, sends, <<>>)
        wrapped(o) == [o EXCEPT !.result = Reply(o.result)]
    IN IF sender_contact \notin Keys(subs)
       THEN same(Ignored, <<>>, <<>>)
       ELSE IF IsEmptyMsg(msg) /\ Len(media_urls) = 0
       THEN same(Ignored, <<>>, <<>>)
       ELSE IF msg.blank
       THEN same(Raise("IndexError"), <<>>, <<>>)
       ELSE
       LET sender == Get(subs, sender_contact)
           sender_name == sender.name
           role == sender.role
           sender_lang == sender.lang
           word_1 == IF IsEmptyMsg(msg) THEN <<>> ELSE Lower(msg.parts[1])
           text == Says(sender_name, msg)
           pushed == Push(subs, text, sender_contact, media_urls, env)
           tested == TestTranslate(subs, msg, sender_contact, env)
       IN IF First1(word_1) = pm_char
          THEN LET split == msg.parts
                   pm_name == Rest(split[1])
                   q == Query(subs, names, Joined(Rest(split)), sender_name,
                              sender_lang, pm_name, media_urls, env)
               IN same(Reply(q.res), q.trs, q.sends)
          ELSE IF role = USER
          THEN IF word_1 = TEST
               THEN same(Reply(tested.res), tested.trs, <<>>)
               ELSE IF Unauthorized(word_1)
               THEN same(Ignored, <<>>, <<>>)
               ELSE same(IF pushed.res.kind = "raise" THEN pushed.res
                         ELSE Return(FALSE, EmptyText),
                         pushed.trs, pushed.sends)
          ELSE CASE word_1 = TEST ->
                      same(Reply(tested.res), tested.trs, <<>>)
                 [] word_1 = ADD ->
                      wrapped(AddSubscriber(subs, names, p, b, msg,
                                            sender_contact, env))
                 [] word_1 = REMOVE ->
                      wrapped(RemoveSubscriber(subs, names, p, b, msg,
                                               sender_contact, env))
                 [] word_1 = LIST ->
                      same(Return(TRUE, ListText(subs)), <<>>, <<>>)
                 [] OTHER ->
                      IF Unauthorized(word_1)
                      THEN same(Ignored, <<>>, <<>>)
                      ELSE same(pushed.res, pushed.trs, pushed.sends)

(***************************************************************************)
(* The environment of one call: which translations and deliveries fail    *)
(* and which file operation fails.                                         *)
(***************************************************************************)
Env(tr_fail, send_fail, io) ==
    [tr_fail |-> tr_fail, send_fail |-> send_fail, io |-> io]

\* One call of process_msg on the running bot
ProcessMsg(msg, sender_contact, media_urls, env) ==
    /\ bot = "running"
    /\ \E o \in {ProcessMsgOutcome(subscribers, display_names, primary,
                                    backup, msg, sender_contact, media_urls,
                                    env)} :
          /\ Len(o.subs) <= MaxSubs
          /\ subscribers' = o.subs
          /\ display_names' = o.names
          /\ primary' = o.primary
          /\ backup' = o.backup
          /\ call' = [msg |-> msg, sender |-> sender_contact,
                      media |-> media_urls,
                      env |-> [tr_fail |-> env.tr_fail,
                               send_fail |-> env.send_fail]]
          /\ result' = o.result
          /\ translated' = o.translated
          /\ sent' = o.sent
          /\ file_ops' = o.file_ops
    /\ UNCHANGED <<bot, logs_ok, threads>>

(***************************************************************************)
(* The messages of the registry commands and of the other message shapes.  *)
(***************************************************************************)
BadPhone == <<"3">>
BadRole == <<"x">>
Url == <<"u">>
Hi == <<"h", "i">>
LastPhone == Phone(NumPhones)

AddMsgs ==
    { Message(<<ADD, c, NameC, EN, USER>>) : c \in Phones }
    \cup { Message(<<ADD, c, NameA, EN, USER>>) : c \in {Phone(2), Phone(3)} }
    \cup { Message(<<ADD, BadPhone, NameC, EN, USER>>),
           Message(<<ADD, LastPhone, NameC, XX, USER>>),
           Message(<<ADD, LastPhone, NameC, EN, BadRole>>),
           Message(<<ADD, Phone(2), NameA, XX, BadRole>>),
           Message(<<ADD, LastPhone, NameC, EN>>),
           Message(<<<<"/", "A", "D", "D">>, LastPhone, NameC, ES, ADMIN>>) }

RemoveMsgs ==
    { Message(<<REMOVE, c>>) :
        c \in Phones \cup {Wrap(Phone(1)), Wrap(Phone(2))} }
    \cup { Message(<<REMOVE>>),
           Message(<<REMOVE, Phone(1), Phone(2)>>) }

\* A call: the message and the media that come with it
Call(msg, media_urls) == [msg |-> msg, media |-> media_urls]

Commands == {Call(m, <<>>) : m \in AddMsgs \cup RemoveMsgs}

Others ==
    { Call(Message(<<>>), <<>>), Call(Message(<<>>), <<Url>>),
      Call(Message(<<Hi>>), <<>>), Call(Message(<<Hi>>), <<Url>>),
      Call(Message(<<pm_char \o NameA, Hi>>), <<>>),
      Call(Message(<<LIST>>), <<>>),
      Call(Message(<<TEST, EN, Hi>>), <<>>),
      Call(Message(<<<<"/", "v">>>>), <<>>) }

NoFault == Env({}, {}, "ok")

\* A message that is not a registry command arrives
Receive ==
    \E c \in Others, sender_contact \in Contacts :
        ProcessMsg(c.msg, sender_contact, c.media, NoFault)

\* An /add or /remove message arrives and the disk works
Command ==
    \E c \in Commands, sender_contact \in Contacts :
        ProcessMsg(c.msg, sender_contact, c.media, NoFault)

Next == Load \/ Receive \/ Command

Spec == Init /\ [][Next]_vars

(***************************************************************************)
(* The same bot on a disk that may fail: any file operation of a save may  *)
(* raise OSError, which no handler catches.                                *)
(***************************************************************************)
FaultMsgs ==
    { Message(<<ADD, LastPhone, NameC, EN, USER>>),
      Message(<<ADD, Phone(2), NameC, EN, USER>>),
      Message(<<ADD, LastPhone, NameA, EN, BadRole>>),
      Message(<<REMOVE, Phone(1)>>),
      Message(<<REMOVE, Phone(2)>>),
      Message(<<REMOVE, LastPhone>>) }

CommandIO ==
    \E msg \in FaultMsgs, sender_contact \in Contacts, io \in IOOutcomes :
        ProcessMsg(msg, sender_contact, <<>>, Env({}, {}, io))

NextIO == Load \/ CommandIO

SpecIO == Init /\ [][NextIO]_vars
(***************************************************************************)
(* Vocabulary of the properties: what the last call was.                   *)
(***************************************************************************)
\* c is a message whose first token, lower-cased, is `word` and that has n
\* tokens
IsCommand(c, word, n) ==
    /\ Len(c.msg.parts) = n
    /\ Lower(c.msg.parts[1]) = word

\* c is handed to a registry handler: its sender is subscribed and is not
\* a user
FromOperator(c, subs) ==
    /\ c.sender \in Keys(subs)
    /\ Get(subs, c.sender).role \in {ADMIN, SUPER}

\* The reply envelope around the message `id` in the language of c's sender
LocalizedReply(id, c, subs) ==
    Return(TRUE, Localized(id, Get(subs, c.sender).lang))

\* The registry a file holds: its JSON members read one by one
HoldsRegistry(bytes) ==
    /\ bytes.t = "token"
    /\ bytes.key = TheKey
    /\ bytes.data.t = "object"
RegistryIn(bytes) ==
    [i \in 1..Len(bytes.data.members) |->
        LET m == bytes.data.members[i]
        IN Entry(m[1], m[2][1], m[2][2], m[2][3])]

\* A phone number in the form /add accepts
WellFormed(contact) ==
    /\ Len(contact) >= 2
    /\ contact[1] = "+"
    /\ \A i \in 2..Len(contact) : contact[i] \in Digits

(***************************************************************************)
(* C1.  A 5-token /add sent by an admin or a super, with a well-formed     *)
(* contact not yet in the registry, a name not yet taken, a supported      *)
(* language and a valid role: afterwards the registry holds the new        *)
(* subscriber under the wrapped contact with exactly that name, language   *)
(* and role, the reverse index maps the name to that contact, and loading  *)
(* the files just written yields the registry in memory.                   *)
(***************************************************************************)
ValidFreshAdd(c, subs, names) ==
    /\ FromOperator(c, subs)
    /\ IsCommand(c, ADD, 5)
    /\ WellFormed(c.msg.parts[2])
    /\ Wrap(c.msg.parts[2]) \notin Keys(subs)
    /\ c.msg.parts[3] \notin DOMAIN names
    /\ c.msg.parts[4] \in {EN, ES}
    /\ c.msg.parts[5] \in {USER, ADMIN, SUPER}

AddPostcondition ==
    [][(bot = "running" /\ ValidFreshAdd(call', subscribers, display_names))
        => LET parts == call'.msg.parts
               key == Wrap(parts[2])
           IN /\ key \in Keys(subscribers')
              /\ Get(subscribers', key)
                    = Entry(key, parts[3], parts[4], parts[5])
              /\ Len(subscribers') = Len(subscribers) + 1
              /\ parts[3] \in DOMAIN display_names'
              /\ display_names'[parts[3]] = key
              /\ HoldsRegistry(primary')
              /\ RegistryIn(primary') = subscribers'
              /\ LoadStore(primary', backup').ok
              /\ LoadStore(primary', backup').value = subscribers']_vars

AddPostconditionWitness ==
    /\ bot = "running"
    /\ IsCommand(call, ADD, 5)
    /\ result.kind = "return"
    /\ result.body = Localized("add_success", EN)
    /\ Wrap(call.msg.parts[2]) \in Keys(subscribers)
    /\ Get(subscribers, Wrap(call.msg.parts[2])).name = call.msg.parts[3]

(***************************************************************************)
(* C2.  A 5-token /add handled for an admin or a super whose contact,      *)
(* once wrapped, is already a key of the registry is answered with the     *)
(* "already exists" error, whatever its name, language and role, and       *)
(* leaves the registry, the reverse index and both files as they were.     *)
(***************************************************************************)
AddExistingRejected ==
    [][(/\ bot = "running"
        /\ FromOperator(call', subscribers)
        /\ IsCommand(call', ADD, 5)
        /\ Wrap(call'.msg.parts[2]) \in Keys(subscribers))
        => /\ result' = LocalizedReply("exists_err", call', subscribers)
           /\ file_ops' = <<>>
           /\ UNCHANGED <<subscribers, display_names, primary, backup>>]_vars

AddExistingRejectedWitness ==
    /\ bot = "running"
    /\ IsCommand(call, ADD, 5)
    /\ result.body = Localized("exists_err", EN)
    /\ Wrap(call.msg.parts[2]) \in Keys(subscribers)
    /\ call.msg.parts[3] \in DOMAIN display_names
    /\ call.msg.parts[4] \notin codes

(***************************************************************************)
(* C3.  As claimed: a 2-token /remove whose wrapped contact is not a key   *)
(* of the registry is answered with the not-found error, writes no file    *)
(* and changes nothing.                                                    *)
(***************************************************************************)
RemoveMissing(c, subs) ==
    /\ FromOperator(c, subs)
    /\ IsCommand(c, REMOVE, 2)
    /\ Wrap(c.msg.parts[2]) \notin Keys(subs)

RemoveMissingFrame ==
    /\ file_ops' = <<>>
    /\ UNCHANGED <<subscribers, display_names, primary, backup>>

Supers(subs) == {subs[i] : i \in {j \in 1..Len(subs) : subs[j].role = SUPER}}
Entries(subs) == {subs[i] : i \in 1..Len(subs)}

AdminCannotRemoveSuper ==
    [][(/\ bot = "running"
        /\ call'.sender \in Keys(subscribers)
        /\ Get(subscribers, call'.sender).role = ADMIN)
        => /\ Supers(subscribers) \subseteq Entries(subscribers')
           /\ \A e \in Supers(subscribers) :
                /\ e.name \in DOMAIN display_names'
                /\ display_names'[e.name] = e.key
           /\ (/\ IsCommand(call', REMOVE, 2)
               /\ Wrap(call'.msg.parts[2]) \in Keys(subscribers)
               /\ Get(subscribers, Wrap(call'.msg.parts[2])).role = SUPER)
              => /\ result' = LocalizedReply("remove_super_err", call',
                                             subscribers)
                 /\ LoadStore(primary', backup').ok
                 /\ Get(subscribers, Wrap(call'.msg.parts[2]))
                        \in Entries(LoadStore(primary', backup').value)]_vars

AdminCannotRemoveSuperWitness ==
    /\ bot = "running"
    /\ IsCommand(call, REMOVE, 2)
    /\ call.sender \in Keys(subscribers)
    /\ Get(subscribers, call.sender).role = ADMIN
    /\ result.body = Localized("remove_super_err",
                               Get(subscribers, call.sender).lang)
    /\ Wrap(call.msg.parts[2]) \in Keys(subscribers)
    /\ Get(subscribers, Wrap(call.msg.parts[2])).role = SUPER
(***************************************************************************)
(* C5.  As claimed: after a /remove sent by a subscriber S, S is still in  *)
(* the registry, whatever the contact argument; and a 2-token /remove      *)
(* handled for S whose argument is S's key, or S's phone number in the     *)
(* '+digits' form, is answered with the self-removal error.                *)
(***************************************************************************)
SenderNeverRemovesItself ==
    [][(/\ bot = "running"
        /\ call'.sender \in Keys(subscribers)
        /\ Len(call'.msg.parts) >= 1
        /\ Lower(call'.msg.parts[1]) = REMOVE)
        => /\ call'.sender \in Keys(subscribers')
           /\ (/\ FromOperator(call', subscribers)
               /\ Len(call'.msg.parts) = 2
               /\ \/ call'.msg.parts[2] = call'.sender
                  \/ Wrap(call'.msg.parts[2]) = call'.sender)
              => result' = LocalizedReply("remove_self_err", call',
                                          subscribers)]_vars

(***************************************************************************)
(* C6.  A message whose sender is not a key of the registry is answered    *)
(* with the empty string, outside any envelope; no translation is asked    *)
(* for, nothing is sent, no file is written, and the registry, the index   *)
(* and the files stay as they were.                                        *)
(***************************************************************************)
UnknownSenderIgnored ==
    [][(bot = "running" /\ call'.sender \notin Keys(subscribers))
        => /\ result' = Return(FALSE, EmptyText)
           /\ translated' = <<>>
           /\ sent' = <<>>
           /\ file_ops' = <<>>
           /\ UNCHANGED <<subscribers, display_names, primary, backup>>]_vars

UnknownSenderIgnoredWitness ==
    /\ bot = "running"
    /\ call.sender \in Contacts \ Keys(subscribers)
    /\ call.msg.parts # <<>>
    /\ First1(call.msg.parts[1]) = pm_char
    /\ result = Return(FALSE, EmptyText)
    /\ sent = <<>>

(***************************************************************************)
(* C7.  In every state of the running bot the reverse index is the         *)
(* inverse of the registry: its domain is the set of the subscribers'      *)
(* names, each name maps to the key of its subscriber, and no two          *)
(* subscribers have the same name.                                         *)
(***************************************************************************)
IndexIsInverse ==
    bot = "running"
    => /\ DOMAIN display_names
            = {subscribers[i].name : i \in 1..Len(subscribers)}
       /\ \A i \in 1..Len(subscribers) :
            display_names[subscribers[i].name] = subscribers[i].key
       /\ \A i, j \in 1..Len(subscribers) :
            subscribers[i].name = subscribers[j].name => i = j

IndexIsInverseWitness ==
    /\ bot = "running"
    /\ IsCommand(call, REMOVE, 2)
    /\ result.body = Localized("remove_success", EN)
    /\ Len(subscribers) >= 2
    /\ NameC \in DOMAIN display_names
    /\ Wrap(call.msg.parts[2]) \notin Keys(subscribers)

(***************************************************************************)
(* C8.  Whenever the last call returned the success message of /add or     *)
(* /remove, the primary and the backup file hold the same bytes and those  *)
(* bytes decrypt to the registry in memory.                                *)
(***************************************************************************)
ReturnedSuccess ==
    /\ result.kind = "return"
    /\ result.body.t = "loc"
    /\ result.body.id \in {"add_success", "remove_success"}

SuccessLeavesFilesEqual ==
    (bot = "running" /\ ReturnedSuccess)
    => /\ primary = backup
       /\ HoldsRegistry(primary)
       /\ RegistryIn(primary) = subscribers
       /\ HoldsRegistry(backup)
       /\ RegistryIn(backup) = subscribers

SuccessLeavesFilesEqualWitness ==
    /\ bot = "running"
    /\ ReturnedSuccess
    /\ result.body.id = "remove_success"
    /\ file_ops = <<"truncate_primary", "write_primary", "truncate_backup",
                    "write_backup">>
    /\ primary = backup
    /\ Len(subscribers) >= 1

(***************************************************************************)
(* C9.  The constructor: a primary file that decrypts and parses gives     *)
(* the registry; a primary that is read but does not decrypt or parse,     *)
(* with a backup that does, gives exactly the backup's registry, and the   *)
(* bot runs if the logs load; if neither file decrypts and parses, no bot  *)
(* exists and no registry was loaded.                                      *)
(***************************************************************************)
LoadFallsBackToBackup ==
    [][(bot = "absent" /\ bot' # "absent")
        => /\ HoldsRegistry(primary)
                => /\ subscribers' = RegistryIn(primary)
                   /\ bot' = "running" <=> logs_ok
           /\ (/\ ~HoldsRegistry(primary)
               /\ primary.t # "missing"
               /\ HoldsRegistry(backup))
                => /\ subscribers' = RegistryIn(backup)
                   /\ bot' = "running" <=> logs_ok
           /\ (~HoldsRegistry(primary) /\ ~HoldsRegistry(backup))
                => /\ bot' = "failed"
                   /\ subscribers' = <<>>]_vars

LoadFallsBackToBackupWitness ==
    /\ bot = "running"
    /\ call = NoCall
    /\ ~HoldsRegistry(primary)
    /\ HoldsRegistry(backup)
    /\ subscribers = StoreB
    /\ subscribers = RegistryIn(backup)

(***************************************************************************)
(* C10.  As claimed: a call of /add or /remove that fails on a file        *)
(* operation leaves the registry and the reverse index as they were, and   *)
(* if the primary file held the registry before the call, it holds the     *)
(* registry after it.                                                      *)
(***************************************************************************)
MutationIsAtomic ==
    [][(/\ bot = "running"
        /\ FromOperator(call', subscribers)
        /\ Len(call'.msg.parts) >= 1
        /\ Lower(call'.msg.parts[1]) \in {ADD, REMOVE})
        => /\ result'.kind = "raise"
                => UNCHANGED <<subscribers, display_names>>
           /\ (HoldsRegistry(primary) /\ RegistryIn(primary) = subscribers)
                => /\ HoldsRegistry(primary')
                   /\ RegistryIn(primary') = subscribers']_vars
(***************************************************************************)
(* The router alone: a bot loaded with one of three registries receives    *)
(* messages of every shape while translations and deliveries may fail.     *)
(* translate_to raises TimeoutError or HTTPError for the languages of      *)
(* tr_fail; client.messages.create raises for the contacts of send_fail.   *)
(***************************************************************************)
StoreC == <<Entry(Wrap(Phone(1)), NameA, EN, USER),
            Entry(Wrap(Phone(2)), NameB, ES, ADMIN),
            Entry(Wrap(Phone(3)), NameC, ES, SUPER)>>

InitRouter ==
    /\ bot = "absent"
    /\ logs_ok = TRUE
    /\ subscribers = <<>>
    /\ display_names = <<>>
    /\ primary \in { Encrypt(TheKey, 1, JsonDumps(StoreA)),
                     Encrypt(TheKey, 1, JsonDumps(StoreC)),
                     Garbage }
    /\ backup = Encrypt(TheKey, 2, JsonDumps(StoreB))
    /\ call = NoCall
    /\ result = NoResult
    /\ translated = <<>>
    /\ sent = <<>>
    /\ file_ops = <<>>
    /\ threads = [t \in Workers |-> Idle]

NameZ == <<"z">>
Slash == <<"/">>

RouterCalls ==
    { Call(Message(<<>>), <<>>), Call(Message(<<>>), <<Url>>),
      Call(Message(<<Hi>>), <<>>), Call(Message(<<Hi, Hi>>), <<Url>>),
      Call(Message(<<Slash, Hi>>), <<>>),
      Call(Message(<<pm_char \o NameA, Hi>>), <<>>),
      Call(Message(<<pm_char \o NameC, Hi>>), <<Url>>),
      Call(Message(<<pm_char \o NameC>>), <<>>),
      Call(Message(<<pm_char \o NameC>>), <<Url>>),
      Call(Message(<<pm_char \o <<"A">>, Hi>>), <<>>),
      Call(Message(<<pm_char \o NameZ, Hi>>), <<Url>>),
      Call(Message(<<pm_char \o NameZ>>), <<>>),
      Call(Message(<<pm_char>>), <<>>),
      Call(Message(<<pm_char, Hi>>), <<>>),
      Call(Message(<<LIST>>), <<>>),
      Call(Message(<<<<"/", "v">>, Hi>>), <<>>),
      Call(Message(<<TEST, ES, Hi>>), <<>>),
      Call(Message(<<ADD, Phone(1), NameZ, EN, USER>>), <<>>),
      Call(Message(<<REMOVE, Phone(1), Phone(2)>>), <<>>),
      Call(BlankMessage, <<>>), Call(BlankMessage, <<Url>>) }

RouterEnvs ==
    { Env(tr, sf, "ok") :
        tr \in {{}, {EN}, {ES}},
        sf \in {{}, {Wrap(Phone(2))}, {Wrap(Phone(3))}} }

\* A message arrives while the collaborators may fail
Deliver ==
    \E c \in RouterCalls, sender_contact \in Contacts, env \in RouterEnvs :
        ProcessMsg(c.msg, sender_contact, c.media, env)

NextRouter == Load \/ Deliver

SpecRouter == InitRouter /\ [][NextRouter]_vars
(***************************************************************************)
(* The vocabulary of the router's properties.  A broadcast or a private    *)
(* message leaves the registry as it was, so the registry of the state is  *)
(* the one the last call ran on.                                           *)
(***************************************************************************)
\* The last call came from a subscriber and had something to send
Heard ==
    /\ bot = "running"
    /\ call.sender \in Keys(subscribers)
    /\ ~call.msg.blank
    /\ ~(IsEmptyMsg(call.msg) /\ call.media = <<>>)

\* The first token of the last call, lowercased; empty for media alone
Word1 == IF call.msg.parts = <<>> THEN <<>> ELSE Lower(call.msg.parts[1])

\* The last call was a broadcast: neither a private message nor a slash
\* command
IsBroadcast ==
    /\ Heard
    /\ First1(Word1) # pm_char
    /\ ~(First1(Word1) = <<"/">> /\ Len(Word1) > 1)

Sender == Get(subscribers, call.sender)

\* The subscribers other than the sender, in registry order
Recipients == SelectSeq(subscribers, LAMBDA e : e.key # call.sender)

\* A translation the last call asked for failed
TranslationFailed ==
    \E i \in DOMAIN translated : translated[i].lang \in call.env.tr_fail

\* The text a broadcast of the last call hands to the translator
BroadcastText == Says(Sender.name, call.msg)

\* C12: a broadcast asks for at most one translation per language; one that
\* runs to its end without a failure asks for exactly one translation of
\* its text per distinct language of the subscribers other than the sender.
\* This holds of every broadcast whatever was broadcast before it: no
\* translation of an earlier broadcast is used again.
TranslatedOncePerLanguage ==
    IsBroadcast =>
        /\ \A i, j \in DOMAIN translated :
               translated[i].lang = translated[j].lang => i = j
        /\ \A i \in DOMAIN translated : translated[i].text = BroadcastText
        /\ (result.kind = "return" /\ ~TranslationFailed) =>
               {translated[i].lang : i \in DOMAIN translated}
                   = {Recipients[i].lang : i \in DOMAIN Recipients}

TranslatedOncePerLanguageWitness ==
    /\ IsBroadcast
    /\ result = Return(FALSE, EmptyText)
    /\ Len(Recipients) = 2
    /\ Recipients[1].lang = Recipients[2].lang
    /\ Len(sent) = 2
    /\ Len(translated) = 1

\* The place in Recipients of the first subscriber whose language cannot
\* be translated, 0 if there is none
FirstFailing ==
    IF \E i \in DOMAIN Recipients : Recipients[i].lang \in call.env.tr_fail
    THEN CHOOSE i \in DOMAIN Recipients :
            /\ Recipients[i].lang \in call.env.tr_fail
            /\ \A j \in 1..(i - 1) : Recipients[j].lang \notin call.env.tr_fail
    ELSE 0

\* C13: when a translation fails during a broadcast, the broadcast stops:
\* the subscribers from the failing one on receive nothing, and the failure
\* message is what process_msg returns to the sender, whatever its role.
TranslationFailureReported ==
    (IsBroadcast /\ TranslationFailed) =>
        /\ \A i \in DOMAIN sent, j \in FirstFailing..Len(Recipients) :
               sent[i].to # Recipients[j].key
        /\ result = Return(FALSE, ExcText("translate"))

DeliveryFails ==
    \E i \in DOMAIN Recipients : Recipients[i].key \in call.env.send_fail

IsPrivate == Heard /\ First1(Word1) = pm_char /\ Len(Word1) > 1

\* The name a private message is addressed to, in the case it was typed in
PmName == Rest(call.msg.parts[1])

\* The body of a private message: the tokens after the first
PmBody == Joined(Rest(call.msg.parts))

\* C15: when the provider fails to deliver a private message, process_msg
\* returns (it does not raise) and its reply carries the provider's error.
PrivateDeliveryFailureReported ==
    (/\ IsPrivate
     /\ PmName \in DOMAIN display_names
     /\ ~(PmBody = EmptyText /\ call.media = <<>>)
     /\ ~TranslationFailed
     /\ display_names[PmName] \in call.env.send_fail) =>
        result = Return(TRUE, ExcText("TwilioRestException"))

\* C16: a message of a known sender goes to the private-message router if
\* and only if its first token begins with the marker and is longer than
\* the marker: such a message is answered in the reply envelope and only
\* its private text is translated; the marker alone is broadcast as plain
\* text, which (when nothing fails) reaches every other subscriber.
PrivateIffLongerThanMarker ==
    /\ IsPrivate =>
           /\ result.kind = "return" => result.wrapped
           /\ \A i \in DOMAIN translated :
                  translated[i].text
                      = PrivateText(Sender.name, PmBody)
    /\ (Heard /\ Word1 = pm_char /\ call.env.tr_fail = {}
            /\ call.env.send_fail = {}) =>
           /\ ~result.wrapped
           /\ Len(sent) = Len(Recipients)
           /\ \A i \in DOMAIN sent :
                  sent[i] = SendCall(Recipients[i].key,
                                     Translation(BroadcastText,
                                                 Recipients[i].lang),
                                     call.media)

\* C19: a private message to a name that is not in the reverse index is
\* answered with the recipient-not-found message in the reply envelope and
\* calls neither collaborator, with or without body or media; a private
\* message to a known name is delivered to the contact of that name alone.
PrivateToUnknownName ==
    IsPrivate =>
        IF PmName \notin DOMAIN display_names
        THEN /\ result = Return(TRUE, Localized("unfound_err", Sender.lang))
             /\ translated = <<>>
             /\ sent = <<>>
        ELSE /\ Len(sent) <= 1
             /\ \A i \in DOMAIN sent : sent[i].to = display_names[PmName]

PrivateToUnknownNameWitness ==
    /\ IsPrivate
    /\ PmName \notin DOMAIN display_names
    /\ PmBody # EmptyText
    /\ call.media # <<>>
    /\ result = Return(TRUE, Localized("unfound_err", Sender.lang))

\* The step is a call of process_msg whose sender is subscribed as a user
FromUser ==
    /\ bot = "running"
    /\ call'.sender \in Keys(subscribers)
    /\ Get(subscribers, call'.sender).role = USER

\* The first token of the step's message is a slash command other than
\* the test-translate command
OtherSlashCommand ==
    /\ call'.msg.parts # <<>>
    /\ LET w == Lower(call'.msg.parts[1])
       IN First1(w) = <<"/">> /\ Len(w) > 1 /\ w # TEST

\* C17: no message of a user changes the registry, the reverse index, the
\* primary file or the backup file; a user's slash command other than
\* /test, /add, /remove and /list among them, is answered with the empty
\* reply and calls no collaborator.
UserChangesNothing ==
    [][FromUser =>
          /\ subscribers' = subscribers
          /\ display_names' = display_names
          /\ primary' = primary
          /\ backup' = backup
          /\ file_ops' = <<>>
          /\ OtherSlashCommand =>
                 /\ result' = Return(FALSE, EmptyText)
                 /\ translated' = <<>>
                 /\ sent' = <<>>]_vars

UserChangesNothingWitness ==
    /\ Heard
    /\ Sender.role = USER
    /\ Word1 = REMOVE
    /\ Len(call.msg.parts) = 2
    /\ Wrap(call.msg.parts[2]) \in Keys(subscribers)
    /\ Wrap(call.msg.parts[2]) # call.sender
    /\ result = Return(FALSE, EmptyText)
    /\ sent = <<>>

(***************************************************************************)
(* The checks of /add: every combination of a contact that is taken, free  *)
(* or ill-formed, a name that is taken or free, a language and a role      *)
(* that are valid or not, and two wrong token counts.                      *)
(***************************************************************************)
AddCalls ==
    { <<ADD, ph, nm, lg, rl>> :
        ph \in {Phone(2), LastPhone, BadPhone}, nm \in {NameA, NameC},
        lg \in {EN, XX}, rl \in {USER, BadRole} }
    \cup { <<ADD, BadPhone, NameA, XX>>,
           <<ADD, BadPhone, NameA, XX, BadRole, Hi>> }

\* An /add arrives
Add ==
    \E parts \in AddCalls, sender_contact \in Contacts :
        ProcessMsg(Message(parts), sender_contact, <<>>, NoFault)

NextAdd == Load \/ Add

SpecAdd == InitRouter /\ [][NextAdd]_vars

\* The checks of /add in the order of the claim, and the error of each
AddCheckErrors ==
    <<"add_err", "add_phone_err", "exists_err", "add_name_err",
      "add_lang_err", "add_role_err">>

\* The checks that the /add of the step fails on the registry before it
FailedAddChecks ==
    LET parts == call'.msg.parts
    IN IF Len(parts) # 5 THEN {1}
       ELSE {k \in 2..6 :
               \/ k = 2 /\ ~WellFormed(parts[2])
               \/ k = 3 /\ Wrap(parts[2]) \in Keys(subscribers)
               \/ k = 4 /\ parts[3] \in DOMAIN display_names
               \/ k = 5 /\ parts[4] \notin {EN, ES}
               \/ k = 6 /\ parts[5] \notin {USER, ADMIN, SUPER}}

\* C18: an /add handled for an admin or a super that fails one or several
\* of the checks token count, contact format, contact exists, name taken,
\* language, role is answered with the error of the earliest of them in
\* that order.
AddChecksInOrder ==
    [][(/\ bot = "running"
        /\ FromOperator(call', subscribers)
        /\ call'.msg.parts # <<>>
        /\ Lower(call'.msg.parts[1]) = ADD
        /\ FailedAddChecks # {})
        => LET first == CHOOSE k \in FailedAddChecks :
                           \A j \in FailedAddChecks : k <= j
           IN result' = LocalizedReply(AddCheckErrors[first], call',
                                       subscribers)]_vars

AddChecksInOrderWitness ==
    /\ bot = "running"
    /\ IsCommand(call, ADD, 5)
    /\ WellFormed(call.msg.parts[2])
    /\ Wrap(call.msg.parts[2]) \in Keys(subscribers)
    /\ call.msg.parts[3] \in DOMAIN display_names
    /\ display_names[call.msg.parts[3]] # Wrap(call.msg.parts[2])
    /\ call.msg.parts[4] \notin codes
    /\ call.msg.parts[5] \notin VALID_ROLES
    /\ result.kind = "return"
    /\ result.body.t = "loc"
    /\ result.body.id = "exists_err"

(***************************************************************************)
(* _add_subscriber and _remove_subscriber one statement at a time, lines   *)
(* 308-367 and 387-436.  Nothing in Chatbot takes a lock, so the           *)
(* statements of two request threads interleave freely.  Each thread       *)
(* remembers what the two files held when its handler started.             *)
(***************************************************************************)
StepCalls ==
    { <<ADD, Phone(2), NameC, EN, USER>>, <<ADD, LastPhone, NameC, ES, USER>>,
      <<ADD, LastPhone, NameB, EN, ADMIN>>,
      <<REMOVE, Phone(2)>>, <<REMOVE, LastPhone>> }

At(t, pc) == bot = "running" /\ threads[t].pc = pc

Goto(t, pc) == threads' = [threads EXCEPT ![t].pc = pc]

\* The handler of t ends with res
Finish(t, res) ==
    threads' = [threads EXCEPT ![t].pc = "idle", ![t].reply = Reply(res)]

IsAdd(t) == Lower(threads[t].parts[1]) = ADD

\* Lines 308-343 and 387-414: a request reaches t, and the handler makes
\* its checks
Check(t) ==
    /\ At(t, "idle")
    /\ threads[t] = Idle
    /\ \E parts \in StepCalls, sender_contact \in Contacts :
          /\ FromOperator([sender |-> sender_contact], subscribers)
          /\ Lower(parts[1]) = ADD => Len(subscribers) < MaxSubs
          /\ LET sender_lang == Get(subscribers, sender_contact).lang
                 failed == IF Lower(parts[1]) = ADD
                           THEN IF Len(parts) = 5
                                THEN AddError(subscribers, display_names,
                                              parts)
                                ELSE "add_err"
                           ELSE IF Len(parts) = 2
                                THEN RemoveError(subscribers, sender_contact,
                                                 parts)
                                ELSE "remove_err"
                 started == [pc |-> "checked", sender |-> sender_contact,
                             sender_lang |-> sender_lang, parts |-> parts,
                             encrypted_data |-> EmptyBytes,
                             backup_before |-> backup,
                             primary_before |-> primary,
                             reply |-> NoResult]
             IN threads' =
                  [threads EXCEPT ![t] =
                      IF failed = "none" THEN started
                      ELSE [started EXCEPT
                              !.pc = "idle",
                              !.reply = Return(TRUE,
                                               Localized(failed,
                                                         sender_lang))]]
    /\ UNCHANGED <<bot, logs_ok, subscribers, display_names, primary, backup,
                   call, result, translated, sent, file_ops>>

\* Lines 345-349, self.subscribers[new_contact_key] = {...}, and lines
\* 416-417, name = self.subscribers[user_contact_key]["name"] and
\* del self.display_names[name]
MutateFirst(t) ==
    /\ At(t, "checked")
    /\ LET parts == threads[t].parts
           key == Wrap(parts[2])
       IN IF IsAdd(t)
          THEN /\ subscribers' = Put(subscribers,
                                     Entry(key, parts[3], parts[4], parts[5]))
               /\ Goto(t, "mutated")
               /\ UNCHANGED display_names
          ELSE IF key \in Keys(subscribers)
                  /\ Get(subscribers, key).name \in DOMAIN display_names
          THEN /\ display_names' = DelName(display_names,
                                           Get(subscribers, key).name)
               /\ Goto(t, "mutated")
               /\ UNCHANGED subscribers
          ELSE /\ Finish(t, Raise("KeyError"))
               /\ UNCHANGED <<subscribers, display_names>>
    /\ UNCHANGED <<bot, logs_ok, primary, backup, call, result, translated,
                   sent, file_ops>>

\* Line 350, self.display_names[new_name] = new_contact_key, and line 418,
\* del self.subscribers[user_contact_key]
MutateSecond(t) ==
    /\ At(t, "mutated")
    /\ LET parts == threads[t].parts
           key == Wrap(parts[2])
       IN IF IsAdd(t)
          THEN /\ display_names' = SetName(display_names, parts[3], key)
               /\ Goto(t, "stored")
               /\ UNCHANGED subscribers
          ELSE IF key \in Keys(subscribers)
          THEN /\ subscribers' = Del(subscribers, key)
               /\ Goto(t, "stored")
               /\ UNCHANGED display_names
          ELSE /\ Finish(t, Raise("KeyError"))
               /\ UNCHANGED <<subscribers, display_names>>
    /\ UNCHANGED <<bot, logs_ok, primary, backup, call, result, translated,
                   sent, file_ops>>

\* Lines 354-358 and 422-426: the registry of this moment, serialized and
\* sealed into a local
Seal(t) ==
    /\ At(t, "stored")
    /\ threads' = [threads EXCEPT
                     ![t].pc = "sealed",
                     ![t].encrypted_data =
                         Encrypt(TheKey, FreshIV(primary),
                                 JsonDumps(subscribers))]
    /\ UNCHANGED <<bot, logs_ok, subscribers, display_names, primary, backup,
                   call, result, translated, sent, file_ops>>

\* Lines 359 and 427: open(self.json_file, "wb") empties the file
OpenPrimary(t) ==
    /\ At(t, "sealed")
    /\ primary' = EmptyBytes
    /\ Goto(t, "primary_open")
    /\ UNCHANGED <<bot, logs_ok, subscribers, display_names, backup, call,
                   result, translated, sent, file_ops>>

\* Lines 360 and 428: file.write(encrypted_data), and the file is closed
WritePrimary(t) ==
    /\ At(t, "primary_open")
    /\ primary' = threads[t].encrypted_data
    /\ Goto(t, "primary_written")
    /\ UNCHANGED <<bot, logs_ok, subscribers, display_names, backup, call,
                   result, translated, sent, file_ops>>

\* Lines 363 and 431: open(self.backup_file, 'wb') empties the file
OpenBackup(t) ==
    /\ At(t, "primary_written")
    /\ backup' = EmptyBytes
    /\ Goto(t, "backup_open")
    /\ UNCHANGED <<bot, logs_ok, subscribers, display_names, primary, call,
                   result, translated, sent, file_ops>>

\* Lines 364-367 and 432-436: the lines the primary file holds at this
\* moment are written to the backup, and the handler returns its success
CopyBackup(t) ==
    /\ At(t, "backup_open")
    /\ backup' = CopyLines(primary)
    /\ Finish(t, Return(FALSE,
                        Localized(IF IsAdd(t) THEN "add_success"
                                  ELSE "remove_success",
                                  threads[t].sender_lang)))
    /\ UNCHANGED <<bot, logs_ok, subscribers, display_names, primary, call,
                   result, translated, sent, file_ops>>

Step(t) ==
    \/ Check(t) \/ MutateFirst(t) \/ MutateSecond(t) \/ Seal(t)
    \/ OpenPrimary(t) \/ WritePrimary(t) \/ OpenBackup(t) \/ CopyBackup(t)

\* One request after the other
NextSteps ==
    \/ Load
    \/ \E t \in Workers :
          /\ \A u \in Workers \ {t} : threads[u].pc = "idle"
          /\ Step(t)

SpecSteps == InitRouter /\ [][NextSteps]_vars

\* Two requests at a time
NextConc == Load \/ \E t \in Workers : Step(t)

SpecConc == InitRouter /\ [][NextConc]_vars

\* t is between two file operations of its persist
Persisting(t) ==
    threads[t].pc \in {"primary_open", "primary_written", "backup_open"}

\* C20: at every point between the file operations of a persist the
\* backup file holds either what the preceding persist left in it or the
\* snapshot the primary file holds now, never anything else.
BackupNeverPartial ==
    \A t \in Workers :
        (bot = "running" /\ Persisting(t)) =>
            backup \in {threads[t].backup_before, primary}

\* The handler of t has returned its success message
Succeeded(t) ==
    /\ threads[t].pc = "idle"
    /\ threads[t].reply.kind = "return"
    /\ threads[t].reply.body.t = "loc"
    /\ threads[t].reply.body.id \in {"add_success", "remove_success"}

\* C11: the sequences of two mutating commands do not interleave: while
\* one thread is between its checks and its return, the other is in no
\* handler; and once both have returned their success, the primary file
\* decrypts to the registry in memory, the backup equals the primary, and
\* the reverse index is the inverse of the registry.
MutationsSerialized ==
    bot = "running" =>
        /\ \A t, u \in Workers :
               (threads[t].pc # "idle" /\ threads[u].pc # "idle") => t = u
        /\ (\A t \in Workers : Succeeded(t)) =>
               /\ HoldsRegistry(primary)
               /\ RegistryIn(primary) = subscribers
               /\ backup = primary
               /\ DOMAIN display_names
                      = {subscribers[i].name : i \in 1..Len(subscribers)}
               /\ \A i, j \in 1..Len(subscribers) :
                      subscribers[i].name = subscribers[j].name => i = j

\* The last call came from a subscriber while every translation and every
\* delivery worked
HeardUndisturbed ==
    /\ bot = "running"
    /\ call.sender \in Keys(subscribers)
    /\ call.env.tr_fail = {}
    /\ call.env.send_fail = {}

\* C21: process_msg returns a reply for every message of a known sender
\* and raises nothing; a text made only of whitespace is handled like an
\* empty one: without media it is ignored with the empty reply and no
\* call to a collaborator.
AlwaysReplies ==
    HeardUndisturbed =>
        /\ result.kind = "return"
        /\ (call.msg.blank /\ call.media = <<>>) =>
               /\ result = Return(FALSE, EmptyText)
               /\ translated = <<>>
               /\ sent = <<>>

\* Both files held a complete snapshot that decrypts when the handler of
\* t started
StartedValid(t) ==
    /\ HoldsRegistry(threads[t].primary_before)
    /\ HoldsRegistry(threads[t].backup_before)

\* What the constructor reads from the files as they are now: the load
\* after a crash at this point
Reloaded == LoadStore(primary, backup)

\* C22: when both files were valid as the handler started, at every point
\* between the file operations of its persist one of the two files holds
\* a snapshot that decrypts, and a load of the files as they are at that
\* point succeeds and yields the registry from before the mutation (the
\* one the primary file held) or the registry after it.
CrashSafe ==
    \A t \in Workers :
        (bot = "running" /\ Persisting(t) /\ StartedValid(t)) =>
            /\ HoldsRegistry(primary) \/ HoldsRegistry(backup)
            /\ Reloaded.ok
            /\ Reloaded.value \in {RegistryIn(threads[t].primary_before),
                                   subscribers}
====
